---- MODULE Spec2Model ----
(***************************************************************************)
(* SpotifyClient (authenticate, get_playlist, get_tracks) with the Track   *)
(* and Playlist entities, as a state machine.  One action per public call  *)
(* and one per blocking HTTP request; the service's answer to a request is *)
(* chosen by the environment.                                              *)
(***************************************************************************)
EXTENDS Integers, Sequences, FiniteSets, TLC

(***************************************************************************)
(* Bounds of the model.                                                    *)
(***************************************************************************)
MaxCalls == 2      \* public calls made on the one client instance
MaxPages == 2      \* track pages the service serves within one get_tracks
MaxItems == 2      \* items on one track page
MaxTracks == 2     \* tracks in the data handed to an exporter

(***************************************************************************)
(* Python / JSON values.  A str is a sequence of atoms (whitespace atoms   *)
(* are " " and "\t"); a dict is a function from keys to values.            *)
(***************************************************************************)
None == [j |-> "null"]
S(s) == [j |-> "str", s |-> s]
I(n) == [j |-> "int", n |-> n]
L(l) == [j |-> "list", l |-> l]
D(o) == [j |-> "obj", o |-> o]
True == [j |-> "bool", b |-> TRUE]

EmptyDict == D(<<>>)

\* bool(v), as `if v:` / `not v` / `v or d` evaluate it
Truthy(v) ==
    CASE v.j = "null" -> FALSE
      [] v.j = "str"  -> v.s # <<>>
      [] v.j = "int"  -> v.n # 0
      [] v.j = "list" -> v.l # <<>>
      [] v.j = "obj"  -> DOMAIN v.o # {}
      [] v.j = "bool" -> v.b

\* d.get(k, dflt)
Get(d, k, dflt) == IF k \in DOMAIN d.o THEN d.o[k] ELSE dflt

\* v or d
Or(v, d) == IF Truthy(v) THEN v ELSE d

Whitespace == {" ", "\t"}

RECURSIVE LStrip(_)
LStrip(s) == IF s # <<>> /\ Head(s) \in Whitespace THEN LStrip(Tail(s)) ELSE s

RECURSIVE RStrip(_)
RStrip(s) ==
    IF s # <<>> /\ s[Len(s)] \in Whitespace THEN RStrip(SubSeq(s, 1, Len(s) - 1)) ELSE s

\* str.strip()
Strip(s) == RStrip(LStrip(s))

(***************************************************************************)
(* Outcomes of a call or of an expression: a returned value or a raised    *)
(* exception.                                                              *)
(***************************************************************************)
Return(v) == [kind |-> "return", value |-> v]
Raise(exc, msg) == [kind |-> "raise", exc |-> exc, msg |-> msg]
Pending == [kind |-> "pending"]

(***************************************************************************)
(* models/playlist.py                                                      *)
(***************************************************************************)
\* Track.__init__
Track(title, artist, album, duration) ==
    IF ~Truthy(title)
    THEN Raise("ValueError", <<"Track title cannot be empty">>)
    ELSE Return([title    |-> title,
                 artist   |-> Or(artist, S(<<"Unknown Artist">>)),
                 album    |-> Or(album, S(<<"Unknown Album">>)),
                 duration |-> duration])

\* Playlist.__init__
Playlist(name, description, tracks) ==
    IF ~Truthy(name)
    THEN Raise("ValueError", <<"Playlist name cannot be empty">>)
    ELSE Return([name        |-> name,
                 description |-> Or(description, S(<<>>)),
                 tracks      |-> tracks])

(***************************************************************************)
(* spotify_client.py: pure parts                                           *)
(***************************************************************************)
base_url == <<"https://api.spotify.com/v1">>

\* _validate_playlist_id without .strip()
InvalidPlaylistId_NoStrip(playlist_id) ==
    \/ ~Truthy(playlist_id)
    \/ playlist_id.j # "str"

\* _validate_playlist_id: TRUE iff it raises ValueError
InvalidPlaylistId(playlist_id) ==
    \/ ~Truthy(playlist_id)
    \/ playlist_id.j # "str"
    \/ Len(Strip(playlist_id.s)) = 0

PlaylistUrl(playlist_id) == S(base_url \o <<"/playlists/">> \o playlist_id.s)

TracksUrl(playlist_id) ==
    S(base_url \o <<"/playlists/">> \o playlist_id.s \o <<"/tracks">>)

\* track_data.get("artists", [{}])[0].get("name")
ArtistExpr(track_data) ==
    LET artists == Get(track_data, "artists", L(<<EmptyDict>>)) IN
    CASE artists.j = "null" -> Raise("TypeError", <<"'NoneType' object is not subscriptable">>)
      [] artists.j = "list" /\ artists.l = <<>> -> Raise("IndexError", <<"list index out of range">>)
      [] artists.j = "list" /\ artists.l # <<>> ->
            IF artists.l[1].j = "obj"
            THEN Return(Get(artists.l[1], "name", None))
            ELSE Raise("AttributeError", <<"object has no attribute 'get'">>)
      [] OTHER -> Raise("TypeError", <<"object is not subscriptable">>)

\* track_data.get("album", {}).get("name")
AlbumExpr(track_data) ==
    LET album == Get(track_data, "album", EmptyDict) IN
    IF album.j = "obj"
    THEN Return(Get(album, "name", None))
    ELSE Raise("AttributeError", <<"object has no attribute 'get'">>)

\* The try block of the loop body, lines 180-189: what a truthy track_data
\* does to the call: "append" a Track, "skip" the item, or "raise".
MapTrackData(track_data) ==
    LET artist == ArtistExpr(track_data)
        album  == AlbumExpr(track_data)
    IN  IF artist.kind = "raise" THEN artist
        ELSE IF album.kind = "raise" THEN album
        ELSE LET t == Track(Get(track_data, "name", S(<<"Unknown Track">>)),
                            artist.value, album.value,
                            Get(track_data, "duration_ms", I(0)))
             IN  IF t.kind = "raise"
                 THEN [kind |-> "skip"]       \* except ValueError: continue
                 ELSE [kind |-> "append", track |-> t.value]

\* MapItem without `if track_data:`
MapItem_NoNullCheck(item) ==
    LET track_data == Get(item, "track", None) IN
    IF track_data.j # "obj"
    THEN Raise("AttributeError", <<"object has no attribute 'get'">>)
    ELSE MapTrackData(track_data)

\* The body of the `for item` loop, lines 178-189.
MapItem(item) ==
    LET track_data == Get(item, "track", None) IN
    IF ~Truthy(track_data)
    THEN [kind |-> "skip"]
    ELSE MapTrackData(track_data)

\* The whole `for item in data.get("items", [])` loop, from `tracks`.
RECURSIVE MapItems(_, _)
MapItems(items, tracks) ==
    IF items = <<>>
    THEN Return(tracks)
    ELSE LET m == MapItem(Head(items)) IN
         CASE m.kind = "raise"  -> m
           [] m.kind = "skip"   -> MapItems(Tail(items), tracks)
           [] m.kind = "append" -> MapItems(Tail(items), Append(tracks, m.track))

(***************************************************************************)
(* What the service may answer.  A response is an HTTP response with a     *)
(* status code and a JSON body, or a transport failure (a                  *)
(* requests.exceptions.RequestException raised by requests.get/post).      *)
(***************************************************************************)
Response(status, body) == [kind |-> "response", status_code |-> status, json |-> body]
TransportFailure == [kind |-> "exception"]

auth_url == S(<<"https://accounts.spotify.com/api/token">>)

TokenBodies ==
    { D([access_token |-> S(<<"tokA">>), token_type |-> S(<<"Bearer">>)]),
      D([access_token |-> S(<<"tokB">>), token_type |-> S(<<"Bearer">>)]),
      D([token_type |-> S(<<"Bearer">>)]) }

TokenResponses ==
    { Response(200, b) : b \in TokenBodies }
      \cup { Response(401, EmptyDict), Response(500, EmptyDict), TransportFailure }

Absent == [j |-> "absent"]

\* a dict holding the keys of `keys` whose value in `f` is not Absent
Dict(keys, f) == D([k \in { x \in keys : f[x] # Absent } |-> f[k]])

MetaBodies ==
    { Dict({"name", "description"}, [name |-> n, description |-> d]) :
        n \in { Absent, None, S(<<>>), S(<<"My Playlist">>) },
        d \in { Absent, None, S(<<"A great playlist">>) } }

MetaResponses ==
    { Response(200, b) : b \in MetaBodies }
      \cup { Response(c, EmptyDict) : c \in {401, 403, 404, 500} }
      \cup { TransportFailure }

Artist1 == L(<<D([name |-> S(<<"Artist 1">>)])>>)
Album1 == D([name |-> S(<<"Album 1">>)])

ItemFull ==
    D([track |-> D([name |-> S(<<"Track 1">>), artists |-> Artist1,
                    album |-> Album1, duration_ms |-> I(200000)])])
ItemBare == D([track |-> D([duration_ms |-> I(250000)])])
ItemNullTrack == D([track |-> None])
ItemNoTrack == D([added_at |-> S(<<"2024">>)])
ItemEmptyName == D([track |-> D([name |-> S(<<>>), artists |-> Artist1, album |-> Album1])])
ItemNullName == D([track |-> D([name |-> None, artists |-> Artist1, album |-> Album1])])
ItemEmptyArtists ==
    D([track |-> D([name |-> S(<<"Track 2">>), artists |-> L(<<>>), album |-> Album1])])
ItemNullAlbum ==
    D([track |-> D([name |-> S(<<"Track 2">>), artists |-> Artist1, album |-> None])])

Items ==
    { ItemFull, ItemBare, ItemNullTrack, ItemNoTrack, ItemEmptyName, ItemNullName,
      ItemEmptyArtists, ItemNullAlbum }

ItemLists == UNION { [1..n -> Items] : n \in 0..MaxItems }

\* the URL of the page after the first n
Offset(n) == S(<<"https://api.spotify.com/v1/playlists/123/tracks?offset=", ToString(n)>>)

\* the URL of the first page, which a chain that runs in a cycle names again
FirstPage == TracksUrl(S(<<"playlist123">>))

\* the bodies the service may send as its n-th page: any items, and as `next`
\* null, nothing, the URL of page n + 1 or, the chain a cycle, that of page 1
PageBodies(n) ==
    { Dict({"items", "next"}, [items |-> i, next |-> x]) :
        i \in { L(l) : l \in ItemLists } \cup { Absent },
        x \in { Offset(n), FirstPage, None, Absent } }

PageResponses(n) ==
    { Response(200, b) : b \in PageBodies(n) }
      \cup { Response(c, EmptyDict) : c \in {401, 404, 500} }
      \cup { TransportFailure }

\* the pages served where the page contents are not what is examined
FewItemLists ==
    { <<>>, <<ItemFull>>, <<ItemBare, ItemFull>>, <<ItemNullTrack, ItemBare>>,
      <<ItemFull, ItemEmptyArtists>> }

FewPageResponses(n) ==
    { Response(200, Dict({"items", "next"}, [items |-> L(l), next |-> x])) :
        l \in FewItemLists, x \in { Offset(n), None } }
      \cup { Response(500, EmptyDict), TransportFailure }

PlaylistIds ==
    { S(<<>>), S(<<" ">>), S(<<" ", "\t">>), S(<<"playlist123">>) }

(***************************************************************************)
(* spotify_client.py: what each request's answer does                      *)
(***************************************************************************)
\* Authenticate dropping the token it holds when the answer is 401
Authenticate_Clear401(response, token) ==
    IF response.kind = "exception"
    THEN [result |-> Raise("SpotifyAuthenticationError", <<"Network error during authentication">>),
          access_token |-> token]
    ELSE IF response.status_code = 200
    THEN IF "access_token" \in DOMAIN response.json.o
         THEN [result |-> Return(True), access_token |-> response.json.o["access_token"]]
         ELSE [result |-> Raise("KeyError", <<"access_token">>), access_token |-> token]
    ELSE IF response.status_code = 401
    THEN [result |-> Raise("SpotifyAuthenticationError", <<"Invalid Spotify credentials">>),
          access_token |-> None]
    ELSE [result |-> Raise("SpotifyAuthenticationError",
                           <<"Authentication failed: ", ToString(response.status_code)>>),
          access_token |-> token]

\* authenticate, from the answer to requests.post: the call's outcome and
\* the access token it leaves
Authenticate(response, token) ==
    IF response.kind = "exception"
    THEN [result |-> Raise("SpotifyAuthenticationError", <<"Network error during authentication">>),
          access_token |-> token]
    ELSE IF response.status_code = 200
    THEN IF "access_token" \in DOMAIN response.json.o
         THEN [result |-> Return(True), access_token |-> response.json.o["access_token"]]
         ELSE [result |-> Raise("KeyError", <<"access_token">>), access_token |-> token]
    ELSE IF response.status_code = 401
    THEN [result |-> Raise("SpotifyAuthenticationError", <<"Invalid Spotify credentials">>),
          access_token |-> token]
    ELSE [result |-> Raise("SpotifyAuthenticationError",
                           <<"Authentication failed: ", ToString(response.status_code)>>),
          access_token |-> token]

\* MetaResult with the 401 branch lost to the general one
MetaResult_No401Branch(response, id) ==
    IF response.kind = "exception"
    THEN Raise("SpotifyAPIError", <<"Network error fetching playlist">>)
    ELSE IF response.status_code = 200
    THEN Return(response.json)
    ELSE IF response.status_code = 404
    THEN Raise("SpotifyAPIError", <<"Playlist not found: ">> \o id.s)
    ELSE Raise("SpotifyAPIError",
               <<"Failed to fetch playlist: ", ToString(response.status_code)>>)

\* get_playlist, from the answer to the metadata GET: Return(data) when the
\* call goes on to get_tracks, or the exception it raises
MetaResult(response, id) ==
    IF response.kind = "exception"
    THEN Raise("SpotifyAPIError", <<"Network error fetching playlist">>)
    ELSE IF response.status_code = 200
    THEN Return(response.json)
    ELSE IF response.status_code = 404
    THEN Raise("SpotifyAPIError", <<"Playlist not found: ">> \o id.s)
    ELSE IF response.status_code = 401
    THEN Raise("SpotifyAuthenticationError", <<"Invalid or expired authentication token">>)
    ELSE Raise("SpotifyAPIError",
               <<"Failed to fetch playlist: ", ToString(response.status_code)>>)

\* PageResult returning what it has when a page fails
PageResult_PartialOnFailure(response, tracks_) ==
    IF response.kind = "exception"
    THEN [result |-> Raise("SpotifyAPIError", <<"Network error fetching tracks">>)]
    ELSE IF response.status_code # 200
    THEN [result |-> Return(tracks_)]
    ELSE LET m == MapItems(Get(response.json, "items", L(<<>>)).l, tracks_)
             next == Get(response.json, "next", None)
         IN  IF m.kind = "raise" THEN [result |-> m]
             ELSE IF Truthy(next)
             THEN [result |-> Pending, tracks |-> m.value, url |-> next]
             ELSE [result |-> Return(m.value)]

\* get_tracks, one turn of `while url`, from the answer to the page GET:
\*   result Pending: the loop goes on with `tracks` and `url`;
\*   result Return/Raise: get_tracks ends so.
PageResult(response, tracks_) ==
    IF response.kind = "exception"
    THEN [result |-> Raise("SpotifyAPIError", <<"Network error fetching tracks">>)]
    ELSE IF response.status_code # 200
    THEN [result |-> Raise("SpotifyAPIError",
                           <<"Failed to fetch tracks: ", ToString(response.status_code)>>)]
    ELSE LET m == MapItems(Get(response.json, "items", L(<<>>)).l, tracks_)
             next == Get(response.json, "next", None)
         IN  IF m.kind = "raise" THEN [result |-> m]
             ELSE IF Truthy(next)
             THEN [result |-> Pending, tracks |-> m.value, url |-> next]
             ELSE [result |-> Return(m.value)]

\* get_playlist, after get_tracks returned `tracks_`
ComposePlaylist(data_, tracks_) ==
    Playlist(Get(data_, "name", S(<<"Untitled">>)), Get(data_, "description", None), tracks_)

(***************************************************************************)
(* The wire format as the service documents it, independent of the client: *)
(* which items carry a track, which of those are well formed, and the      *)
(* Track a well-formed item stands for.                                    *)
(***************************************************************************)
HasTrack(item) == "track" \in DOMAIN item.o /\ item.o["track"] # None

WellFormed(item) ==
    LET t == item.o["track"].o IN
    /\ HasTrack(item)
    /\ "name" \in DOMAIN t => (t["name"].j = "str" /\ t["name"].s # <<>>)
    /\ "artists" \in DOMAIN t =>
          (t["artists"].j = "list" /\ t["artists"].l # <<>> /\ t["artists"].l[1].j = "obj")
    /\ "album" \in DOMAIN t => t["album"].j = "obj"

WireTrack(item) ==
    LET t == item.o["track"].o
        artist == IF "artists" \in DOMAIN t /\ "name" \in DOMAIN t["artists"].l[1].o
                  THEN t["artists"].l[1].o["name"] ELSE S(<<"Unknown Artist">>)
        album  == IF "album" \in DOMAIN t /\ "name" \in DOMAIN t["album"].o
                  THEN t["album"].o["name"] ELSE S(<<"Unknown Album">>)
    IN  [title    |-> IF "name" \in DOMAIN t THEN t["name"] ELSE S(<<"Unknown Track">>),
         artist   |-> artist,
         album    |-> album,
         duration |-> IF "duration_ms" \in DOMAIN t THEN t["duration_ms"] ELSE I(0)]

RECURSIVE ValidTracks(_)
ValidTracks(items) ==
    IF items = <<>> THEN <<>>
    ELSE (IF HasTrack(Head(items)) /\ WellFormed(Head(items))
          THEN <<WireTrack(Head(items))>> ELSE <<>>) \o ValidTracks(Tail(items))

WithoutNullItems(items) == SelectSeq(items, HasTrack)

ItemsOf(response) ==
    IF response.kind = "response" /\ response.status_code = 200
    THEN Get(response.json, "items", L(<<>>)).l
    ELSE <<>>

(***************************************************************************)
(* Text helpers.  File contents are sequences of atoms as strs are.        *)
(***************************************************************************)
\* the concatenation of a sequence of sequences
RECURSIVE Flatten(_)
Flatten(ss) == IF ss = <<>> THEN <<>> ELSE Head(ss) \o Flatten(Tail(ss))

\* s[i], or "EOF" past the end of s
At(s, i) == IF i \in 1..Len(s) THEN s[i] ELSE "EOF"

\* the index of the first atom of `stops` in s at or after i, Len(s) + 1 if none
RECURSIVE Until(_, _, _)
Until(s, i, stops) ==
    IF i > Len(s) \/ s[i] \in stops THEN i ELSE Until(s, i + 1, stops)

\* str(v)
Str(v) ==
    CASE v.j = "str"  -> v.s
      [] v.j = "int"  -> <<ToString(v.n)>>
      [] v.j = "null" -> <<"None">>
      [] v.j = "bool" -> <<"True">>

(***************************************************************************)
(* The file system the exporters write to: the directories and the files   *)
(* that exist, a path being the sequence of its components.  Whether the   *)
(* operating system lets a call through is the environment's choice `io`:  *)
(* "ok", "mkdir" (mkdir raises OSError) or "open" (open raises OSError).   *)
(***************************************************************************)
Parent(path) == SubSeq(path, 1, Len(path) - 1)

\* Path(dir).mkdir(parents=True, exist_ok=True)
Mkdir(fs_, dir) ==
    [fs_ EXCEPT !.dirs = fs_.dirs \cup { SubSeq(dir, 1, n) : n \in 0..Len(dir) }]

\* open(file_path, 'w') and the writes up to close
WriteFile(fs_, path, content) ==
    [fs_ EXCEPT !.files = [p \in DOMAIN fs_.files \cup {path} |->
                              IF p = path THEN content ELSE fs_.files[p]]]

IOFailures == {"ok", "mkdir", "open"}

\* The try block shared by the exporters: mkdir of the parent, then the
\* file written with `content`; an IOError is logged and raised again.
WriteExport(fs_, path, content, io) ==
    CASE io = "mkdir" -> [result |-> Raise("OSError", <<"mkdir">>), fs |-> fs_]
      [] io = "open"  -> [result |-> Raise("OSError", <<"open">>),
                          fs |-> Mkdir(fs_, Parent(path))]
      [] io = "ok"    -> [result |-> Return(None),
                          fs |-> WriteFile(Mkdir(fs_, Parent(path)), path, content)]

(***************************************************************************)
(* exporters/json_exporter.py                                              *)
(***************************************************************************)
\* the keys of the maps exported, in the order main.py and Track.to_dict
\* insert them
KeyOrder == <<"name", "description", "tracks", "title", "artist", "album", "duration">>

\* newline and indentation of nesting depth d, indent=4
Indent(d) == <<"\n">> \o [i \in 1..(4 * d) |-> " "]

\* one character of a str inside a JSON string literal
JsonChar(c) ==
    CASE c = "\"" -> <<"\\", "\"">>
      [] c = "\\" -> <<"\\", "\\">>
      [] c = "\n" -> <<"\\", "n">>
      [] OTHER    -> <<c>>

\* json.dump(v, indent=4, ensure_ascii=False), at nesting depth d
RECURSIVE JsonDump(_, _)
JsonDump(v, d) ==
    CASE v.j = "null" -> <<"null">>
      [] v.j = "bool" -> <<"true">>
      [] v.j = "int"  -> <<ToString(v.n)>>
      [] v.j = "str"  ->
            <<"\"">> \o Flatten([i \in 1..Len(v.s) |-> JsonChar(v.s[i])]) \o <<"\"">>
      [] v.j = "list" ->
            IF v.l = <<>> THEN <<"[]">>
            ELSE <<"[">>
                 \o Flatten([i \in 1..Len(v.l) |->
                        Indent(d + 1) \o JsonDump(v.l[i], d + 1)
                        \o (IF i < Len(v.l) THEN <<",">> ELSE <<>>)])
                 \o Indent(d) \o <<"]">>
      [] v.j = "obj"  ->
            LET keys == SelectSeq(KeyOrder, LAMBDA k : k \in DOMAIN v.o) IN
            IF keys = <<>> THEN <<"{}">>
            ELSE <<"{">>
                 \o Flatten([i \in 1..Len(keys) |->
                        Indent(d + 1) \o <<"\"", keys[i], "\"", ": ">>
                        \o JsonDump(v.o[keys[i]], d + 1)
                        \o (IF i < Len(keys) THEN <<",">> ELSE <<>>)])
                 \o Indent(d) \o <<"}">>

\* JSONExporter.export accepting only data that holds a 'tracks' key
JSONExport_NeedsTracks(data_, file_path_, fs_, io) ==
    IF ~Truthy(data_)
    THEN [result |-> Raise("ValueError", <<"Data cannot be empty">>), fs |-> fs_]
    ELSE IF "tracks" \notin DOMAIN data_.o
    THEN [result |-> Raise("ValueError", <<"Data must contain 'tracks' key">>), fs |-> fs_]
    ELSE WriteExport(fs_, file_path_, JsonDump(data_, 0), io)

\* JSONExporter.export: how the call ends and the file system it leaves
JSONExport(data_, file_path_, fs_, io) ==
    IF ~Truthy(data_)
    THEN [result |-> Raise("ValueError", <<"Data cannot be empty">>), fs |-> fs_]
    ELSE WriteExport(fs_, file_path_, JsonDump(data_, 0), io)

(***************************************************************************)
(* exporters/csv_exporter.py, with csv.writer and csv.reader of the        *)
(* default ("excel") dialect                                               *)
(***************************************************************************)
CsvHeader ==
    <<S(<<"Track Title">>), S(<<"Artist">>), S(<<"Album">>), S(<<"Duration (ms)">>)>>

\* the characters that make csv.writer quote a field (QUOTE_MINIMAL)
CsvSpecial == {",", "\"", "\r", "\n"}

\* csv.writer's field kept as it is whatever it holds
CsvField_NoQuoting(v) == IF v.j = "null" THEN <<>> ELSE Str(v)

\* one field as csv.writer writes it: None as nothing, other values by
\* str(), quoted and with its quotes doubled if it holds a special character
CsvField(v) ==
    LET s == IF v.j = "null" THEN <<>> ELSE Str(v) IN
    IF \E i \in 1..Len(s) : s[i] \in CsvSpecial
    THEN <<"\"">>
         \o Flatten([i \in 1..Len(s) |-> IF s[i] = "\"" THEN <<"\"", "\"">> ELSE <<s[i]>>])
         \o <<"\"">>
    ELSE s

\* writer.writerow(values)
CsvRow(values) ==
    Flatten([i \in 1..Len(values) |->
                (IF i > 1 THEN <<",">> ELSE <<>>) \o CsvField(values[i])])
    \o <<"\r\n">>

\* the list given to writer.writerow for one track, lines 40-45
TrackRow(track) ==
    <<Get(track, "title", S(<<"Unknown">>)), Get(track, "artist", S(<<"Unknown">>)),
      Get(track, "album", S(<<"Unknown">>)), Get(track, "duration", I(0))>>

\* what the `with open` block writes for the list `tracks_`
CsvContent(tracks_) ==
    CsvRow(CsvHeader) \o Flatten([i \in 1..Len(tracks_) |-> CsvRow(TrackRow(tracks_[i]))])

\* CSVExporter.export creating the parent directory before it validates
CSVExport_MkdirFirst(data_, file_path_, fs_, io) ==
    IF io = "mkdir"
    THEN [result |-> Raise("OSError", <<"mkdir">>), fs |-> fs_]
    ELSE IF ~Truthy(data_) \/ "tracks" \notin DOMAIN data_.o
    THEN [result |-> Raise("ValueError", <<"Data must contain 'tracks' key">>),
          fs |-> Mkdir(fs_, Parent(file_path_))]
    ELSE LET tracks_ == data_.o["tracks"] IN
         IF tracks_.j = "list"
         THEN WriteExport(fs_, file_path_, CsvContent(tracks_.l), io)
         ELSE LET w == WriteExport(fs_, file_path_, CsvRow(CsvHeader), io) IN
              IF w.result.kind = "raise" THEN w
              ELSE [result |-> Raise("TypeError", <<"object is not iterable">>), fs |-> w.fs]

\* CSVExporter.export: how the call ends and the file system it leaves
CSVExport(data_, file_path_, fs_, io) ==
    IF ~Truthy(data_) \/ "tracks" \notin DOMAIN data_.o
    THEN [result |-> Raise("ValueError", <<"Data must contain 'tracks' key">>), fs |-> fs_]
    ELSE LET tracks_ == data_.o["tracks"] IN
         IF tracks_.j = "list"
         THEN WriteExport(fs_, file_path_, CsvContent(tracks_.l), io)
         ELSE \* `for track in tracks` raises once the header row is written
              LET w == WriteExport(fs_, file_path_, CsvRow(CsvHeader), io) IN
              IF w.result.kind = "raise" THEN w
              ELSE [result |-> Raise("TypeError", <<"object is not iterable">>), fs |-> w.fs]

\* csv.reader over a file's content: the rows read, each the list of its
\* fields; `row` and `field` are the row and the field being read and
\* `quoted` tells whether the reader is inside a quoted field
RECURSIVE CsvRead(_, _, _, _, _)
CsvRead(s, rows, row, field, quoted) ==
    IF s = <<>>
    THEN (IF row = <<>> /\ field = <<>> THEN rows ELSE Append(rows, Append(row, field)))
    ELSE LET c == Head(s) IN
         IF quoted
         THEN IF c = "\""
              THEN IF At(s, 2) = "\""
                   THEN CsvRead(Tail(Tail(s)), rows, row, Append(field, "\""), TRUE)
                   ELSE CsvRead(Tail(s), rows, row, field, FALSE)
              ELSE CsvRead(Tail(s), rows, row, Append(field, c), TRUE)
         ELSE CASE c = "\"" -> CsvRead(Tail(s), rows, row, field, TRUE)
                [] c = ","  -> CsvRead(Tail(s), rows, Append(row, field), <<>>, FALSE)
                [] c \in {"\r\n", "\n", "\r"} ->
                       CsvRead(Tail(s), Append(rows, Append(row, field)), <<>>, <<>>, FALSE)
                [] OTHER    -> CsvRead(Tail(s), rows, row, Append(field, c), FALSE)

(***************************************************************************)
(* exporters/xml_exporter.py, with xml.etree.ElementTree's writer and      *)
(* parser                                                                  *)
(***************************************************************************)
\* the XML declaration and the newline after it
XmlDecl == <<"<", "?", "xml version='1.0' encoding='utf-8'", "?", ">", "\n">>

\* the reference that stands for a character
Entity(c) ==
    CASE c = "&"  -> <<"&", "amp", ";">>
      [] c = "<"  -> <<"&", "lt", ";">>
      [] c = ">"  -> <<"&", "gt", ";">>
      [] c = "\"" -> <<"&", "quot", ";">>
      [] c = "\r" -> <<"&", "#13", ";">>
      [] c = "\n" -> <<"&", "#10", ";">>
      [] c = "\t" -> <<"&", "#09", ";">>

\* ElementTree._escape_cdata: element text
EscapeCdata(s) ==
    Flatten([i \in 1..Len(s) |->
                IF s[i] \in {"&", "<", ">"} THEN Entity(s[i]) ELSE <<s[i]>>])

\* _escape_attrib leaving the double quote as it is
EscapeAttrib_NoQuote(s) ==
    Flatten([i \in 1..Len(s) |->
                IF s[i] \in {"&", "<", ">", "\r", "\n", "\t"}
                THEN Entity(s[i]) ELSE <<s[i]>>])

\* ElementTree._escape_attrib: attribute values
EscapeAttrib(s) ==
    Flatten([i \in 1..Len(s) |->
                IF s[i] \in {"&", "<", ">", "\"", "\r", "\n", "\t"}
                THEN Entity(s[i]) ELSE <<s[i]>>])

\* root.set(name, value), as written
XmlAttr(name, value) == <<" ", name, "=", "\"">> \o EscapeAttrib(value) \o <<"\"">>

\* ET.SubElement(parent, tag).text = text, as written: an element with no
\* text and no children is written as an empty-element tag
XmlLeaf(tag, text) ==
    IF text = <<>>
    THEN <<"<", tag, " ", "/", ">">>
    ELSE <<"<", tag, ">">> \o EscapeCdata(text) \o <<"<", "/", tag, ">">>

\* the <track> element of one track, lines 41-45
XmlTrack(track) ==
    <<"<", "track", ">">>
    \o XmlLeaf("title", Str(Get(track, "title", S(<<"Unknown">>))))
    \o XmlLeaf("artist", Str(Get(track, "artist", S(<<"Unknown">>))))
    \o XmlLeaf("album", Str(Get(track, "album", S(<<"Unknown">>))))
    \o XmlLeaf("duration", Str(Get(track, "duration", I(0))))
    \o <<"<", "/", "track", ">">>

\* tree.write(file_path, encoding='utf-8', xml_declaration=True)
XmlDocument(data_) ==
    LET tracks_ == data_.o["tracks"].l IN
    XmlDecl
    \o <<"<", "playlist">>
    \o XmlAttr("name", Str(Get(data_, "name", S(<<"Untitled">>))))
    \o XmlAttr("description", Str(Get(data_, "description", S(<<>>))))
    \o <<">">>
    \o (IF tracks_ = <<>>
        THEN <<"<", "tracks", " ", "/", ">">>
        ELSE <<"<", "tracks", ">">>
             \o Flatten([i \in 1..Len(tracks_) |-> XmlTrack(tracks_[i])])
             \o <<"<", "/", "tracks", ">">>)
    \o <<"<", "/", "playlist", ">">>

\* XMLExporter.export without `if not data`
XMLExport_NoEmptyCheck(data_, file_path_, fs_, io) ==
    IF data_.j # "obj"
    THEN [result |-> Raise("TypeError", <<"argument of type 'NoneType' is not iterable">>),
          fs |-> fs_]
    ELSE IF "tracks" \notin DOMAIN data_.o
    THEN [result |-> Raise("ValueError", <<"Data must contain 'tracks' key">>), fs |-> fs_]
    ELSE IF io = "mkdir"
    THEN [result |-> Raise("OSError", <<"mkdir">>), fs |-> fs_]
    ELSE IF data_.o["tracks"].j # "list"
    THEN [result |-> Raise("TypeError", <<"object is not iterable">>),
          fs |-> Mkdir(fs_, Parent(file_path_))]
    ELSE WriteExport(fs_, file_path_, XmlDocument(data_), io)

\* XMLExporter.export: how the call ends and the file system it leaves
XMLExport(data_, file_path_, fs_, io) ==
    IF ~Truthy(data_)
    THEN [result |-> Raise("ValueError", <<"Data cannot be empty">>), fs |-> fs_]
    ELSE IF "tracks" \notin DOMAIN data_.o
    THEN [result |-> Raise("ValueError", <<"Data must contain 'tracks' key">>), fs |-> fs_]
    ELSE IF io = "mkdir"
    THEN [result |-> Raise("OSError", <<"mkdir">>), fs |-> fs_]
    ELSE IF data_.o["tracks"].j # "list"
    THEN \* `for track in data.get('tracks', [])` raises, the directory made
         [result |-> Raise("TypeError", <<"object is not iterable">>),
          fs |-> Mkdir(fs_, Parent(file_path_))]
    ELSE WriteExport(fs_, file_path_, XmlDocument(data_), io)

\* the character an entity or character reference stands for
EntityChar(name) ==
    CASE name = "amp"  -> "&"
      [] name = "lt"   -> "<"
      [] name = "gt"   -> ">"
      [] name = "quot" -> "\""
      [] name = "#13"  -> "\r"
      [] name = "#10"  -> "\n"
      [] name = "#09"  -> "\t"
      [] OTHER         -> "EOF"

Bad == [ok |-> FALSE]

\* character data or an attribute value with its references resolved; a
\* bare & or < is not well formed
RECURSIVE Unescape(_)
Unescape(s) ==
    IF s = <<>> THEN [ok |-> TRUE, s |-> <<>>]
    ELSE IF Head(s) = "<" THEN Bad
    ELSE IF Head(s) = "&"
    THEN IF At(s, 3) = ";" /\ EntityChar(At(s, 2)) # "EOF"
         THEN LET r == Unescape(SubSeq(s, 4, Len(s))) IN
              IF r.ok THEN [ok |-> TRUE, s |-> <<EntityChar(s[2])>> \o r.s] ELSE Bad
         ELSE Bad
    ELSE LET r == Unescape(Tail(s)) IN
         IF r.ok THEN [ok |-> TRUE, s |-> <<Head(s)>> \o r.s] ELSE Bad

RECURSIVE ParseAttrs(_, _, _)
RECURSIVE ParseElement(_, _)
RECURSIVE ParseChildren(_, _, _, _)

\* the attributes of a start tag from s[i] on, added to `attrs`: the value of
\* each and the characters it is written with
ParseAttrs(s, i, attrs) ==
    IF At(s, i) = " " /\ At(s, i + 1) # "/"
    THEN IF At(s, i + 2) = "=" /\ At(s, i + 3) = "\""
         THEN LET j == Until(s, i + 4, {"\""})
                  v == Unescape(SubSeq(s, i + 4, j - 1))
              IN  IF j > Len(s) \/ ~v.ok THEN Bad
                  ELSE ParseAttrs(s, j + 1,
                                  [k \in DOMAIN attrs \cup {s[i + 1]} |->
                                      IF k = s[i + 1]
                                      THEN [value |-> S(v.s), raw |-> SubSeq(s, i + 4, j - 1)]
                                      ELSE attrs[k]])
         ELSE Bad
    ELSE [ok |-> TRUE, attrs |-> attrs, pos |-> i]

\* the element that starts at s[i]: its tag, attributes, text (None when it
\* has none, as Element.text is), the characters the text is written with,
\* and children, and where it ends
ParseElement(s, i) ==
    IF At(s, i) # "<" \/ At(s, i + 1) \in {"/", "?", "EOF"} THEN Bad
    ELSE LET a == ParseAttrs(s, i + 2, <<>>) IN
         IF ~a.ok THEN Bad
         ELSE IF At(s, a.pos) = " " /\ At(s, a.pos + 1) = "/" /\ At(s, a.pos + 2) = ">"
         THEN [ok |-> TRUE, pos |-> a.pos + 3,
               node |-> [tag |-> s[i + 1], attrs |-> a.attrs, text |-> None,
                         raw |-> <<>>, children |-> <<>>]]
         ELSE IF At(s, a.pos) = ">"
         THEN LET j == Until(s, a.pos + 1, {"<"})
                  t == Unescape(SubSeq(s, a.pos + 1, j - 1))
                  c == ParseChildren(s, j, s[i + 1], <<>>)
              IN  IF ~t.ok THEN Bad
                  ELSE IF ~c.ok THEN Bad
                  ELSE [ok |-> TRUE, pos |-> c.pos,
                        node |-> [tag |-> s[i + 1], attrs |-> a.attrs,
                                  text |-> IF j = a.pos + 1 THEN None ELSE S(t.s),
                                  raw |-> SubSeq(s, a.pos + 1, j - 1),
                                  children |-> c.children]]
         ELSE Bad

\* the children of the element `tag` from s[i] up to its end tag
ParseChildren(s, i, tag, acc) ==
    IF At(s, i) = "<" /\ At(s, i + 1) = "/"
    THEN IF At(s, i + 2) = tag /\ At(s, i + 3) = ">"
         THEN [ok |-> TRUE, children |-> acc, pos |-> i + 4]
         ELSE Bad
    ELSE LET e == ParseElement(s, i) IN
         IF ~e.ok THEN Bad ELSE ParseChildren(s, e.pos, tag, Append(acc, e.node))

\* ET.parse(file).getroot()
XmlParse(doc) ==
    IF SubSeq(doc, 1, Len(XmlDecl)) # XmlDecl THEN Bad
    ELSE LET e == ParseElement(doc, Len(XmlDecl) + 1) IN
         IF e.ok /\ e.pos = Len(doc) + 1 THEN [ok |-> TRUE, root |-> e.node] ELSE Bad

(***************************************************************************)
(* The client and its caller                                               *)
(***************************************************************************)
VARIABLES
    access_token,   \* self.access_token
    pc,             \* "idle", or the request the running call makes next:
                    \*   "auth" (requests.post), "meta", "page" (requests.get)
    op,             \* the public method the caller invoked last
    cont,           \* where authenticate() returns to: "return", "meta", "page"
    nested,         \* get_tracks is running inside get_playlist
    playlist_id,    \* the argument of the call
    data,           \* get_playlist: the metadata body
    url,            \* get_tracks: url
    tracks,         \* get_tracks: tracks
    result,         \* what the call gave its caller: Pending while it runs
    \* history of the run, written and never read by the client
    calls,          \* public calls made so far
    posts,          \* token requests issued by this client instance so far
    reqs,           \* the requests of the running (or last) call, in order
    inner,          \* how the get_tracks of the running (or last) call ended
    tokenAtCall,    \* access_token when the call was made
    expected,       \* the Tracks of the well-formed items served to the call
    shadow,         \* the item loops of the call run on its pages less the
                    \*   items that carry no track
    nulls,          \* items carrying no track served to the call
    all200,         \* every token request so far was answered with status 200
    explicitAuth,   \* the caller has called authenticate() itself
    prev401,        \* the call before this one was an authenticate() that
                    \*   failed on a 401
    \* the file system and the exporter call made on it
    fs,             \* [dirs: the directories, files: path -> content]
    exporter,       \* the format of the exporter called: "json", "csv", "xml"
    export_data,    \* export(data, file_path): data
    file_path,      \* export(data, file_path): file_path
    export_result,  \* how export ended: Pending while it was not called
    \* main()
    mpc,            \* "start", "run", "returned" or "raised"; "none" without main
    args,           \* what parse_arguments returned
    exit_code,      \* what main returned or the code of the SystemExit that left it
    \* history, written and never read by the program
    fs_before,      \* the file system when export was called
    io_failure,     \* the operating system call that failed during export
    ended_in        \* the step of main that ended the run

clientVars ==
    <<access_token, pc, op, cont, nested, playlist_id, data, url, tracks, result,
      calls, posts, reqs, inner, tokenAtCall, expected, shadow, nulls,
      all200, explicitAuth, prev401>>

exportVars == <<fs, exporter, export_data, file_path, export_result, fs_before, io_failure>>

mainVars == <<mpc, args, exit_code, ended_in>>

vars == <<clientVars, exportVars, mainVars>>

StatusOf(response) == IF response.kind = "exception" THEN 0 ELSE response.status_code

Request(kind, to, response) ==
    [kind |-> kind, url |-> to, status |-> StatusOf(response),
     next |-> IF response.kind = "response" THEN Get(response.json, "next", None) ELSE None]

Requests(kind) == SelectSeq(reqs, LAMBDA r : r.kind = kind)

PagesFetched == Len(Requests("page"))

EmptyFS == [dirs |-> {<<>>}, files |-> <<>>]

\* no exporter was called
NoExport ==
    /\ exporter = "none"
    /\ export_data = None
    /\ file_path = <<>>
    /\ export_result = Pending
    /\ fs_before = fs
    /\ io_failure = "ok"

\* the client is used without main and without an exporter
NoCaller ==
    /\ fs = EmptyFS
    /\ NoExport
    /\ mpc = "none"
    /\ args = [kind |-> "none"]
    /\ exit_code = -1
    /\ ended_in = "none"

\* __init__ has run
Init ==
    /\ access_token = None
    /\ pc = "idle"
    /\ op = "none"
    /\ cont = "return"
    /\ nested = FALSE
    /\ playlist_id = None
    /\ data = None
    /\ url = None
    /\ tracks = <<>>
    /\ result = Pending
    /\ calls = 0
    /\ posts = 0
    /\ reqs = <<>>
    /\ inner = Pending
    /\ tokenAtCall = None
    /\ expected = <<>>
    /\ shadow = Return(<<>>)
    /\ nulls = 0
    /\ all200 = TRUE
    /\ explicitAuth = FALSE
    /\ prev401 = FALSE
    /\ NoCaller

\* the caller invokes `name`
Begin(name, id) ==
    /\ pc = "idle"
    /\ calls < MaxCalls
    /\ calls' = calls + 1
    /\ op' = name
    /\ playlist_id' = id
    /\ reqs' = <<>>
    /\ inner' = Pending
    /\ tokenAtCall' = access_token
    /\ data' = None
    /\ expected' = <<>>
    /\ shadow' = Return(<<>>)
    /\ nulls' = 0
    /\ explicitAuth' = (explicitAuth \/ name = "authenticate")
    /\ prev401' = (op = "authenticate" /\ reqs # <<>> /\ reqs[1].status = 401)
    /\ UNCHANGED <<access_token, posts, all200>>
    /\ UNCHANGED <<exportVars, mainVars>>

\* the call ends: `r` goes to the caller
End(r) ==
    /\ pc' = "idle"
    /\ result' = r
    /\ url' = None
    /\ tracks' = <<>>

\* get_tracks, lines 168-169, entering the loop
EnterLoop(id) ==
    /\ pc' = "page"
    /\ tracks' = <<>>
    /\ url' = TracksUrl(id)
    /\ result' = Pending

\* client.authenticate()
CallAuthenticate ==
    /\ Begin("authenticate", None)
    /\ pc' = "auth"
    /\ cont' = "return"
    /\ result' = Pending
    /\ UNCHANGED <<nested, url, tracks>>

\* client.get_playlist(id), up to its first request
CallGetPlaylist ==
    \E id \in PlaylistIds :
        /\ Begin("get_playlist", id)
        /\ nested' = FALSE
        /\ cont' = "meta"
        /\ IF InvalidPlaylistId(id)
           THEN End(Raise("ValueError", <<"Playlist ID cannot be empty">>))
           ELSE /\ pc' = IF ~Truthy(access_token) THEN "auth" ELSE "meta"
                /\ result' = Pending
                /\ UNCHANGED <<url, tracks>>

\* client.get_tracks(id), up to its first request
CallGetTracks ==
    \E id \in PlaylistIds :
        /\ Begin("get_tracks", id)
        /\ nested' = FALSE
        /\ cont' = "page"
        /\ IF InvalidPlaylistId(id)
           THEN End(Raise("ValueError", <<"Playlist ID cannot be empty">>))
           ELSE IF ~Truthy(access_token)
           THEN /\ pc' = "auth"
                /\ result' = Pending
                /\ UNCHANGED <<url, tracks>>
           ELSE EnterLoop(id)

\* authenticate(): requests.post and what follows its answer, up to the
\* caller's next request
TokenRequest ==
    /\ pc = "auth"
    /\ \E response \in TokenResponses :
         LET a == Authenticate(response, access_token) IN
         /\ access_token' = a.access_token
         /\ posts' = posts + 1
         /\ reqs' = Append(reqs, Request("token", auth_url, response))
         /\ all200' = (all200 /\ StatusOf(response) = 200)
         /\ IF a.result.kind = "raise" THEN End(a.result)
            ELSE CASE cont = "return" -> End(a.result)
                   [] cont = "meta"   -> /\ pc' = "meta"
                                         /\ UNCHANGED <<result, url, tracks>>
                   [] cont = "page"   -> EnterLoop(playlist_id)
    /\ UNCHANGED <<op, cont, nested, playlist_id, data, calls, inner, tokenAtCall,
                   expected, shadow, nulls, explicitAuth, prev401>>
    /\ UNCHANGED <<exportVars, mainVars>>

\* MetaRequest answering a 401 by authenticating again and retrying
MetaRequest_Retry401 ==
    /\ pc = "meta"
    /\ \E response \in MetaResponses :
         LET m == MetaResult(response, playlist_id) IN
         /\ reqs' = Append(reqs, Request("meta", PlaylistUrl(playlist_id), response))
         /\ IF StatusOf(response) = 401
            THEN /\ pc' = "auth"
                 /\ UNCHANGED <<data, nested, cont, result, url, tracks>>
            ELSE IF m.kind = "raise"
            THEN /\ End(m)
                 /\ UNCHANGED <<data, nested, cont>>
            ELSE /\ data' = m.value
                 /\ nested' = TRUE
                 /\ cont' = "page"
                 /\ IF ~Truthy(access_token)
                    THEN /\ pc' = "auth"
                         /\ UNCHANGED <<result, url, tracks>>
                    ELSE EnterLoop(playlist_id)
    /\ UNCHANGED <<access_token, op, playlist_id, calls, posts, inner, tokenAtCall,
                   expected, shadow, nulls, all200, explicitAuth, prev401>>
    /\ UNCHANGED <<exportVars, mainVars>>

\* get_playlist: requests.get(url) and what follows its answer, into the
\* nested get_tracks up to its first request
MetaRequest ==
    /\ pc = "meta"
    /\ \E response \in MetaResponses :
         LET m == MetaResult(response, playlist_id) IN
         /\ reqs' = Append(reqs, Request("meta", PlaylistUrl(playlist_id), response))
         /\ IF m.kind = "raise"
            THEN /\ End(m)
                 /\ UNCHANGED <<data, nested, cont>>
            ELSE /\ data' = m.value
                 /\ nested' = TRUE
                 /\ cont' = "page"
                 /\ IF InvalidPlaylistId(playlist_id)
                    THEN End(Raise("ValueError", <<"Playlist ID cannot be empty">>))
                    ELSE IF ~Truthy(access_token)
                    THEN /\ pc' = "auth"
                         /\ UNCHANGED <<result, url, tracks>>
                    ELSE EnterLoop(playlist_id)
    /\ UNCHANGED <<access_token, op, playlist_id, calls, posts, inner, tokenAtCall,
                   expected, shadow, nulls, all200, explicitAuth, prev401>>
    /\ UNCHANGED <<exportVars, mainVars>>

\* get_tracks: one requests.get(url) of the loop and what follows its
\* answer, the service answering from `responses`
PageRequest(responses) ==
    /\ pc = "page"
    /\ \E response \in responses :
         LET p == PageResult(response, tracks) IN
         /\ p.result.kind = "pending" => PagesFetched + 1 < MaxPages
         /\ reqs' = Append(reqs, Request("page", url, response))
         /\ expected' = expected \o ValidTracks(ItemsOf(response))
         /\ shadow' = IF shadow.kind = "return"
                      THEN MapItems(WithoutNullItems(ItemsOf(response)), shadow.value)
                      ELSE shadow
         /\ nulls' = nulls + Len(ItemsOf(response)) - Len(WithoutNullItems(ItemsOf(response)))
         /\ IF p.result.kind = "pending"
            THEN /\ tracks' = p.tracks
                 /\ url' = p.url
                 /\ UNCHANGED <<pc, result, inner>>
            ELSE /\ inner' = p.result
                 /\ IF nested /\ p.result.kind = "return"
                    THEN End(ComposePlaylist(data, p.result.value))
                    ELSE End(p.result)
    /\ UNCHANGED <<access_token, op, cont, nested, playlist_id, data, calls, posts,
                   tokenAtCall, all200, explicitAuth, prev401>>
    /\ UNCHANGED <<exportVars, mainVars>>

FetchPage == PageRequest(FewPageResponses(PagesFetched + 1))

Next ==
    \/ CallAuthenticate
    \/ CallGetPlaylist
    \/ CallGetTracks
    \/ TokenRequest
    \/ MetaRequest
    \/ FetchPage

Spec == Init /\ [][Next]_vars

(***************************************************************************)
(* One get_tracks call on a client given its token as the tests give it,   *)
(* against every page the service may serve.                               *)
(***************************************************************************)
InitTracks ==
    /\ access_token = S(<<"test_token">>)
    /\ pc = "idle"
    /\ op = "none"
    /\ cont = "return"
    /\ nested = FALSE
    /\ playlist_id = None
    /\ data = None
    /\ url = None
    /\ tracks = <<>>
    /\ result = Pending
    /\ calls = 0
    /\ posts = 0
    /\ reqs = <<>>
    /\ inner = Pending
    /\ tokenAtCall = None
    /\ expected = <<>>
    /\ shadow = Return(<<>>)
    /\ nulls = 0
    /\ all200 = TRUE
    /\ explicitAuth = FALSE
    /\ prev401 = FALSE
    /\ NoCaller

FirstGetTracks == op = "none" /\ CallGetTracks

FetchAnyPage == PageRequest(PageResponses(PagesFetched + 1))

NextTracks ==
    \/ FirstGetTracks
    \/ FetchAnyPage

SpecTracks == InitTracks /\ [][NextTracks]_vars

(***************************************************************************)
(* get_tracks against wire items whose fields are present, absent, empty,  *)
(* null or out of range one at a time, each of them an item the loop maps  *)
(* to a Track or skips.                                                    *)
(***************************************************************************)
WireTrackData ==
    { [name |-> n, artists |-> a, album |-> b, duration_ms |-> d] :
        n \in { S(<<"Track 1">>), Absent },
        a \in { Artist1, L(<<D([name |-> S(<<>>)])>>), Absent },
        b \in { Album1, D([name |-> None]) },
        d \in { I(200000), Absent, None, I(-1) } }

WireItems ==
    { D([track |-> Dict({"name", "artists", "album", "duration_ms"}, t)]) :
        t \in WireTrackData }
      \cup { ItemEmptyName, ItemNullTrack }

\* one such item on a page
WireItemLists == { <<item>> : item \in WireItems }

WirePageResponses(n) ==
    { Response(200, Dict({"items", "next"}, [items |-> L(l), next |-> x])) :
        l \in WireItemLists, x \in { Offset(n), None } }
      \cup { Response(500, EmptyDict) }

FetchWirePage == PageRequest(WirePageResponses(PagesFetched + 1))

NextWire ==
    \/ FirstGetTracks
    \/ FetchWirePage

SpecWire == InitTracks /\ [][NextWire]_vars


(***************************************************************************)
(* One export(data, file_path) call of one exporter, on every data and     *)
(* file system of the sets below.                                          *)
(***************************************************************************)
\* strs of ordinary text and of the characters XML and CSV reserve
ExportTexts ==
    { <<>>, <<"Song 1">>, <<"R", "&", "B">>, <<"<", "b", ">">>,
      <<"\"", "Hi", "\"">>, <<"a", ",", "b">> }

\* track dicts as Track.to_dict builds them, and dicts that lack keys
TrackDicts ==
    { D([title |-> S(t), artist |-> S(<<"by ">> \o t), album |-> S(t \o <<" LP">>),
         duration |-> I(180000)]) : t \in ExportTexts }
      \cup { D([title |-> S(<<"B">>), artist |-> S(<<>>), album |-> S(<<>>),
                duration |-> I(0)]),
             D([title |-> S(<<"Song 1">>)]) }

TrackLists == UNION { [1..n -> TrackDicts] : n \in 0..MaxTracks }

\* the name and the description of the data
Headers ==
    { [name |-> S(t), description |-> S(<<"About ">> \o t)] : t \in ExportTexts }
      \cup { [name |-> S(<<"Mix">>), description |-> S(<<>>)],
             [name |-> Absent, description |-> Absent] }

ExportData ==
    { Dict({"name", "description", "tracks"},
           [name |-> h.name, description |-> h.description, tracks |-> t]) :
        h \in Headers, t \in { L(l) : l \in TrackLists } \cup { Absent } }
      \cup { D([name |-> S(<<"Mix">>), tracks |-> None]), None }

OldContent == <<"old">>

\* where export writes and what is there before: the directory exists, the
\* file exists too, or the parent directory does not exist yet
Scenes ==
    { [path |-> <<"out", "playlist">>,
       fs   |-> [dirs |-> {<<>>, <<"out">>}, files |-> <<>>]],
      [path |-> <<"out", "playlist">>,
       fs   |-> [dirs |-> {<<>>, <<"out">>},
                 files |-> [p \in {<<"out", "playlist">>} |-> OldContent]]],
      [path |-> <<"out", "nested", "playlist">>,
       fs   |-> [dirs |-> {<<>>, <<"out">>}, files |-> <<>>]] }

InitExport ==
    /\ access_token = None
    /\ pc = "idle"
    /\ op = "none"
    /\ cont = "return"
    /\ nested = FALSE
    /\ playlist_id = None
    /\ data = None
    /\ url = None
    /\ tracks = <<>>
    /\ result = Pending
    /\ calls = 0
    /\ posts = 0
    /\ reqs = <<>>
    /\ inner = Pending
    /\ tokenAtCall = None
    /\ expected = <<>>
    /\ shadow = Return(<<>>)
    /\ nulls = 0
    /\ all200 = TRUE
    /\ explicitAuth = FALSE
    /\ prev401 = FALSE
    /\ \E scene \in Scenes :
         /\ fs = scene.fs
         /\ file_path = scene.path
    /\ exporter = "none"
    /\ export_data = None
    /\ export_result = Pending
    /\ fs_before = fs
    /\ io_failure = "ok"
    /\ mpc = "none"
    /\ args = [kind |-> "none"]
    /\ exit_code = -1
    /\ ended_in = "none"

\* exporter.export(data_, file_path), `e` being how it ends and the file
\* system it leaves
Exported(format, data_, io, e) ==
    /\ exporter' = format
    /\ export_data' = data_
    /\ io_failure' = io
    /\ fs_before' = fs
    /\ fs' = e.fs
    /\ export_result' = e.result

\* JSONExporter().export(data, file_path)
ExportJSON ==
    /\ export_result = Pending
    /\ \E data_ \in ExportData, io \in IOFailures :
         Exported("json", data_, io, JSONExport(data_, file_path, fs, io))
    /\ UNCHANGED <<clientVars, mainVars, file_path>>

\* CSVExporter().export(data, file_path)
ExportCSV ==
    /\ export_result = Pending
    /\ \E data_ \in ExportData, io \in IOFailures :
         Exported("csv", data_, io, CSVExport(data_, file_path, fs, io))
    /\ UNCHANGED <<clientVars, mainVars, file_path>>

\* XMLExporter().export(data, file_path)
ExportXML ==
    /\ export_result = Pending
    /\ \E data_ \in ExportData, io \in IOFailures :
         Exported("xml", data_, io, XMLExport(data_, file_path, fs, io))
    /\ UNCHANGED <<clientVars, mainVars, file_path>>

NextExport ==
    \/ ExportJSON
    \/ ExportCSV
    \/ ExportXML

SpecExport == InitExport /\ [][NextExport]_vars

(***************************************************************************)
(* main.py: one run of main(), from the command line to the exit code.     *)
(* mpc is "start" before parse_arguments, "run" from then on, "returned"   *)
(* when main returned exit_code, and "raised" when an exception (a         *)
(* SystemExit carrying exit_code) left main.  Between two requests main is *)
(* where the client call it made last is.                                  *)
(***************************************************************************)
EXPORTERS == {"json", "csv", "xml"}

\* the characters of a sequence joined into one str
RECURSIVE Join(_)
Join(s) == IF s = <<>> THEN "" ELSE Head(s) \o Join(Tail(s))

\* filename.replace('..', '')
RECURSIVE DropDotDot(_)
DropDotDot(s) ==
    IF s = <<>> THEN <<>>
    ELSE IF Len(s) >= 2 /\ s[1] = "." /\ s[2] = "." THEN DropDotDot(Tail(Tail(s)))
    ELSE <<Head(s)>> \o DropDotDot(Tail(s))

\* s.strip(chars)
RECURSIVE StripOf(_, _)
StripOf(s, chars) ==
    IF s # <<>> /\ Head(s) \in chars THEN StripOf(Tail(s), chars)
    ELSE IF s # <<>> /\ s[Len(s)] \in chars THEN StripOf(SubSeq(s, 1, Len(s) - 1), chars)
    ELSE s

\* sanitize_filename
sanitize_filename(filename) ==
    LET separators == SelectSeq(filename, LAMBDA c : c \notin {"/", "\\"})
        traversal  == DropDotDot(separators)
        invalid    == SelectSeq(traversal,
                                LAMBDA c : c \notin {"<", ">", ":", "\"", "|", "?", "*"})
        stripped   == StripOf(invalid, {".", " "})
    IN  IF stripped = <<>> THEN <<"playlist">> ELSE stripped

\* Track.to_dict
TrackToDict(track) ==
    D([title |-> track.title, artist |-> track.artist, album |-> track.album,
       duration |-> track.duration])

\* the data main prepares for export, lines 100-104
ExportDataOf(playlist) ==
    D([name        |-> playlist.name,
       description |-> playlist.description,
       tracks      |-> L([i \in 1..Len(playlist.tracks) |-> TrackToDict(playlist.tracks[i])])])

\* output_dir / f"{safe_name}.{args.format}"
FileName(output, name, format) ==
    Append(output, Join(sanitize_filename(name.s)) \o "." \o format)

\* exporter_class().export(data_, file_path_)
Export(format, data_, file_path_, fs_, io) ==
    CASE format = "json" -> JSONExport(data_, file_path_, fs_, io)
      [] format = "csv"  -> CSVExport(data_, file_path_, fs_, io)
      [] format = "xml"  -> XMLExport(data_, file_path_, fs_, io)

\* what parse_arguments gives for the command lines a user may type: the
\* Namespace, or the SystemExit argparse raises for a command line it
\* rejects (code 2) and for --help (code 0)
CommandLines ==
    { [kind |-> "args", playlist_id |-> id, format |-> f, output |-> <<"out">>] :
        id \in { S(<<"playlist123">>), S(<<" ">>) }, f \in EXPORTERS }
      \cup { [kind |-> "exit", code |-> 2], [kind |-> "exit", code |-> 0] }

\* the file systems main may start on: the output directory missing or there
MainFileSystems ==
    { EmptyFS, [dirs |-> {<<>>, <<"out">>}, files |-> <<>>] }

InitMain ==
    /\ access_token = None
    /\ pc = "idle"
    /\ op = "none"
    /\ cont = "return"
    /\ nested = FALSE
    /\ playlist_id = None
    /\ data = None
    /\ url = None
    /\ tracks = <<>>
    /\ result = Pending
    /\ calls = 0
    /\ posts = 0
    /\ reqs = <<>>
    /\ inner = Pending
    /\ tokenAtCall = None
    /\ expected = <<>>
    /\ shadow = Return(<<>>)
    /\ nulls = 0
    /\ all200 = TRUE
    /\ explicitAuth = FALSE
    /\ prev401 = FALSE
    /\ fs \in MainFileSystems
    /\ NoExport
    /\ mpc = "start"
    /\ args = [kind |-> "none"]
    /\ exit_code = -1
    /\ ended_in = "none"

\* main without its except clauses: every failure leaves it as an exception
MainEnds_Uncaught(how, code, step) ==
    /\ mpc' = IF code = 0 THEN how ELSE "raised"
    /\ exit_code' = code
    /\ ended_in' = step

\* main ends: `return code`, or the exception leaves it
MainEnds(how, code, step) ==
    /\ mpc' = how
    /\ exit_code' = code
    /\ ended_in' = step

\* main, lines 77-87: parse_arguments() and SpotifyClient(), the environment
\* holding the credentials or not
MainStart ==
    /\ mpc = "start"
    /\ \E cmd \in CommandLines, credentials \in BOOLEAN :
         /\ args' = cmd
         /\ IF cmd.kind = "exit"
            THEN \* SystemExit is not an Exception: no except clause takes it
                 MainEnds("raised", cmd.code, "parse_arguments")
            ELSE IF ~credentials
            THEN \* except ValueError: return 1
                 MainEnds("returned", 1, "SpotifyClient")
            ELSE /\ mpc' = "run"
                 /\ UNCHANGED <<exit_code, ended_in>>
    /\ UNCHANGED <<clientVars, exportVars>>

\* main, line 91: client.authenticate()
MainAuthenticate ==
    /\ mpc = "run"
    /\ op = "none"
    /\ CallAuthenticate

\* main going on to get_playlist whatever authenticate() did
MainGetPlaylist_NoAuthenticate ==
    /\ mpc = "run"
    /\ op = "authenticate"
    /\ pc = "idle"
    /\ CallGetPlaylist
    /\ playlist_id' = args.playlist_id

\* main, line 96: client.get_playlist(args.playlist_id), authenticate()
\* having returned
MainGetPlaylist ==
    /\ mpc = "run"
    /\ op = "authenticate"
    /\ pc = "idle"
    /\ result.kind = "return"
    /\ CallGetPlaylist
    /\ playlist_id' = args.playlist_id

\* main, lines 125-144: the exception that left authenticate() or
\* get_playlist() is taken by one of the except clauses, which return 1
MainFailed ==
    /\ mpc = "run"
    /\ pc = "idle"
    /\ op \in {"authenticate", "get_playlist"}
    /\ result.kind = "raise"
    /\ MainEnds("returned", 1, op)
    /\ UNCHANGED <<clientVars, exportVars, args>>

\* main, lines 97-146, get_playlist() having returned: the data, the output
\* directory, the file name, the export and the exit code
MainExport ==
    /\ mpc = "run"
    /\ pc = "idle"
    /\ op = "get_playlist"
    /\ result.kind = "return"
    /\ \E io \in IOFailures :
         LET playlist == result.value
             data_ == ExportDataOf(playlist)
             path == FileName(args.output, playlist.name, args.format)
         IN  IF io = "mkdir"
             THEN \* output_dir.mkdir raises; except IOError: return 1
                  /\ MainEnds("returned", 1, "mkdir")
                  /\ UNCHANGED exportVars
             ELSE LET e == Export(args.format, data_, path, Mkdir(fs, args.output), io) IN
                  /\ file_path' = path
                  /\ Exported(args.format, data_, io, e)
                  /\ MainEnds("returned", IF e.result.kind = "raise" THEN 1 ELSE 0, "export")
    /\ UNCHANGED <<clientVars, args>>

NextMain ==
    \/ MainStart
    \/ MainAuthenticate
    \/ TokenRequest
    \/ MainGetPlaylist
    \/ MetaRequest
    \/ FetchPage
    \/ MainFailed
    \/ MainExport

SpecMain == InitMain /\ [][NextMain]_vars


(***************************************************************************)
(* Properties                                                              *)
(***************************************************************************)
Pages == Requests("page")

LastPage == Pages[Len(Pages)]

\* get_tracks has ended, its last request a page the service answered 200
EndedOnAPage == pc = "idle" /\ Pages # <<>> /\ LastPage.status = 200

\* C1: against a chain of N pages all answered 200, get_tracks issues exactly
\* N GETs, the first to /playlists/{id}/tracks and each later one to the
\* `next` of the answer before, and returns the Tracks of the valid items of
\* all N pages in page and item order.
C1_WholeChainFetchedInOrder ==
    (op = "get_tracks" /\ pc = "idle" /\ Pages # <<>>
        /\ \A i \in 1..Len(Pages) : Pages[i].status = 200)
    => /\ result = Return(expected)
       /\ ~Truthy(LastPage.next)
       /\ Pages[1].url = TracksUrl(playlist_id)
       /\ \A i \in 1..(Len(Pages) - 1) : Pages[i + 1].url = Pages[i].next

\* C2: an item with a null or missing track payload has no effect on the
\* call: get_tracks ends, or goes on to the page's `next`, with exactly what the
\* same pages less those items give.
C2_NullItemsHaveNoEffect ==
    /\ (pc = "page" /\ Pages # <<>>) => (shadow = Return(tracks) /\ url = LastPage.next)
    /\ EndedOnAPage => (inner = shadow /\ (inner.kind = "return" => ~Truthy(LastPage.next)))

\* a two-page call that was served items without a track and returned Tracks
\* from both pages
C2_Witness ==
    /\ EndedOnAPage
    /\ nulls > 0
    /\ Len(Pages) = MaxPages
    /\ inner.kind = "return"
    /\ Len(inner.value) > MaxItems

\* C3: no malformed track record makes get_tracks fail: after a page answered
\* 200, whatever its items, get_tracks returns the Tracks of the valid items.
C3_MalformedItemsDropped ==
    EndedOnAPage => (inner.kind = "return" /\ inner.value = expected)

\* C4: a page answered with a non-200 status is the last request of the
\* call, which fails with SpotifyAPIError and returns no track list.
C4_FailedPageAborts ==
    \A i \in 1..Len(Pages) :
        Pages[i].status \notin {200, 0}
        => /\ i = Len(Pages)
           /\ Len(reqs) = Len(Requests("token")) + Len(Requests("meta")) + i
           /\ pc = "idle"
           /\ inner = Raise("SpotifyAPIError",
                            <<"Failed to fetch tracks: ", ToString(Pages[i].status)>>)
           /\ result = inner

\* a later page fails after Tracks were gathered from an earlier one
C4_Witness ==
    /\ pc = "idle"
    /\ Len(Pages) = MaxPages
    /\ LastPage.status = 500
    /\ expected # <<>>
    /\ result.kind = "raise"

Metas == Requests("meta")

AuthError401 == Raise("SpotifyAuthenticationError", <<"Invalid Spotify credentials">>)

\* C5: with the token endpoint answering 200 and only get_playlist and
\* get_tracks called, the client issues one token request in all, and issues
\* it before any data GET.
C5_OneTokenRequestPerClient ==
    (all200 /\ ~explicitAuth)
    => /\ posts <= 1
       /\ (Metas # <<>> \/ Pages # <<>>) => posts = 1
       /\ \A i, j \in 1..Len(reqs) :
              (reqs[i].kind = "token" /\ reqs[j].kind # "token") => i < j

\* C6 as stated: authenticate() answered 401 fails with
\* SpotifyAuthenticationError and leaves no access token stored; a
\* get_playlist made next, the token endpoint still answering 401, fails
\* with SpotifyAuthenticationError and issues no data GET.
C6_Auth401LeavesNoToken ==
    /\ (op = "authenticate" /\ pc = "idle" /\ reqs # <<>> /\ reqs[1].status = 401)
       => (result = AuthError401 /\ access_token = None)
    /\ (op = "get_playlist" /\ pc = "idle" /\ prev401 /\ ~InvalidPlaylistId(playlist_id)
           /\ \A i \in 1..Len(reqs) : reqs[i].kind = "token" => reqs[i].status = 401)
       => (result = AuthError401 /\ Metas = <<>> /\ Pages = <<>>)

\* C6 amended: authenticate() answered 401 fails with
\* SpotifyAuthenticationError and leaves the stored token as it was before the
\* call; a get_playlist made while no token is held, the token endpoint
\* answering 401, fails with SpotifyAuthenticationError after that one request,
\* with no data GET and the token as it was.
C6_Auth401KeepsToken ==
    /\ (op = "authenticate" /\ reqs # <<>> /\ reqs[1].status = 401)
       => (pc = "idle" /\ result = AuthError401 /\ access_token = tokenAtCall)
    /\ (op = "get_playlist" /\ reqs # <<>> /\ reqs[1].kind = "token" /\ reqs[1].status = 401)
       => /\ pc = "idle"
          /\ result = AuthError401
          /\ Len(reqs) = 1
          /\ access_token = tokenAtCall

\* authenticate() failed on a 401 holding a token, and the get_playlist after
\* a failed authenticate() failed on a 401 as well
C6_Witness ==
    /\ op = "get_playlist"
    /\ prev401
    /\ pc = "idle"
    /\ Len(reqs) = 1
    /\ reqs[1].status = 401
    /\ result = AuthError401
    /\ access_token = None

\* C7: the answer to the metadata GET alone decides how get_playlist fails:
\* 404, 401, any other non-200 status and a transport failure each give their
\* own exception, and the metadata GET is the last request of the call.
C7_MetaFailureByAnswer ==
    (op = "get_playlist" /\ Metas # <<>> /\ Metas[1].status # 200)
    => /\ pc = "idle"
       /\ result =
            CASE Metas[1].status = 404 ->
                   Raise("SpotifyAPIError", <<"Playlist not found: ">> \o playlist_id.s)
              [] Metas[1].status = 401 ->
                   Raise("SpotifyAuthenticationError",
                         <<"Invalid or expired authentication token">>)
              [] Metas[1].status = 0 ->
                   Raise("SpotifyAPIError", <<"Network error fetching playlist">>)
              [] OTHER ->
                   Raise("SpotifyAPIError",
                         <<"Failed to fetch playlist: ", ToString(Metas[1].status)>>)
       /\ Pages = <<>>
       /\ reqs[Len(reqs)].kind = "meta"
       /\ Len(Metas) = 1

\* a get_playlist that failed on a 401 metadata answer while holding a token
C7_Witness ==
    /\ op = "get_playlist"
    /\ pc = "idle"
    /\ Metas # <<>>
    /\ Metas[1].status = 401
    /\ result.kind = "raise"
    /\ result.exc = "SpotifyAuthenticationError"
    /\ Truthy(tokenAtCall)

\* C8 as stated: after a 401 metadata answer the call ends with no further
\* request and the stored token is the one held before the call.
C8_Meta401TokenAsBeforeCall ==
    (op = "get_playlist" /\ pc = "idle" /\ Metas # <<>> /\ Metas[1].status = 401)
    => /\ reqs[Len(reqs)].kind = "meta"
       /\ result.kind = "raise"
       /\ result.exc = "SpotifyAuthenticationError"
       /\ access_token = tokenAtCall

\* C8 amended: the step that receives a 401 metadata answer ends the call
\* with SpotifyAuthenticationError, that GET being its only request, issues no
\* token request, and leaves the stored token as it was when the GET was sent.
C8_Meta401SurfacedAtOnce ==
    [][(pc = "meta" /\ Len(reqs') > Len(reqs) /\ reqs'[Len(reqs')].status = 401)
         => /\ pc' = "idle"
            /\ result' = Raise("SpotifyAuthenticationError",
                               <<"Invalid or expired authentication token">>)
            /\ Len(reqs') = Len(reqs) + 1
            /\ posts' = posts
            /\ access_token' = access_token]_vars

\* a get_playlist that authenticated lazily and then got a 401 metadata answer
C8_Witness ==
    /\ op = "get_playlist"
    /\ pc = "idle"
    /\ Len(reqs) > 1
    /\ reqs[Len(reqs)].kind = "meta"
    /\ reqs[Len(reqs)].status = 401
    /\ result.kind = "raise"
    /\ Truthy(access_token)
    /\ access_token # tokenAtCall

\* an id that is empty or all whitespace
Blank(id) == id.j = "str" /\ \A i \in 1..Len(id.s) : id.s[i] \in Whitespace

\* C9: get_playlist and get_tracks with an empty or whitespace-only id fail
\* with ValueError having issued no request and left the token untouched.
C9_BlankIdRejectedFirst ==
    (op \in {"get_playlist", "get_tracks"} /\ Blank(playlist_id))
    => /\ pc = "idle"
       /\ result = Raise("ValueError", <<"Playlist ID cannot be empty">>)
       /\ reqs = <<>>
       /\ access_token = tokenAtCall

\* a whitespace-only id given to a client that holds a token
C9_Witness ==
    /\ op = "get_tracks"
    /\ playlist_id = S(<<" ", "\t">>)
    /\ Truthy(access_token)
    /\ result.kind = "raise"
    /\ result.exc = "ValueError"

\* C10: when the metadata answer is 200 and the nested get_tracks returns,
\* get_playlist returns a Playlist with the answer's name, or "Untitled" when
\* it has no usable one, its description or "", and get_tracks' Tracks.
C10_PlaylistComposed ==
    (op = "get_playlist" /\ pc = "idle" /\ inner.kind = "return")
    => result =
         Return([name        |-> IF "name" \in DOMAIN data.o /\ Truthy(data.o["name"])
                                 THEN data.o["name"] ELSE S(<<"Untitled">>),
                 description |-> IF "description" \in DOMAIN data.o
                                      /\ Truthy(data.o["description"])
                                 THEN data.o["description"] ELSE S(<<>>),
                 tracks      |-> inner.value])

\* export was called with data that is None or empty
EmptyDataExported == exporter # "none" /\ ~Truthy(export_data)

\* C11 as stated: every exporter called with empty or null data fails with
\* ValueError "Data cannot be empty".
C11_EmptyDataSameMessage ==
    EmptyDataExported => export_result = Raise("ValueError", <<"Data cannot be empty">>)

\* C11 amended: every exporter called with empty or null data fails with
\* ValueError; the message is "Data cannot be empty" for JSON and XML and
\* "Data must contain 'tracks' key" for CSV.
C11_EmptyDataRejected ==
    EmptyDataExported
    => export_result =
          Raise("ValueError", IF exporter = "csv"
                              THEN <<"Data must contain 'tracks' key">>
                              ELSE <<"Data cannot be empty">>)

\* the XML exporter was given {}
C11_Witness ==
    /\ exporter = "xml"
    /\ export_data = EmptyDict
    /\ export_result.kind = "raise"

\* export was called with a non-empty dict that has no 'tracks' key
NoTracksExported ==
    /\ exporter # "none"
    /\ Truthy(export_data)
    /\ export_data.j = "obj"
    /\ "tracks" \notin DOMAIN export_data.o

\* export returned and the file at file_path holds `content`
Wrote(content) ==
    /\ export_result = Return(None)
    /\ file_path \in DOMAIN fs.files
    /\ fs.files[file_path] = content

\* C12: on a non-empty dict without 'tracks' the CSV and the XML exporter
\* fail with ValueError "Data must contain 'tracks' key", while the JSON
\* exporter raises no ValueError and, the operating system letting mkdir and
\* open through, returns with the dict written to the file.
C12_TracksKeyOnlyForCsvXml ==
    NoTracksExported
    => IF exporter \in {"csv", "xml"}
       THEN export_result = Raise("ValueError", <<"Data must contain 'tracks' key">>)
       ELSE /\ export_result.kind = "raise" => export_result.exc = "OSError"
            /\ io_failure = "ok" => Wrote(JsonDump(export_data, 0))

\* the JSON exporter wrote a dict that has no 'tracks' key
C12_Witness ==
    /\ NoTracksExported
    /\ exporter = "json"
    /\ export_result = Return(None)
    /\ file_path \in DOMAIN fs.files

\* the CSV exporter was given a dict with a list under 'tracks'
TrackListExported(format) ==
    /\ exporter = format
    /\ export_data.j = "obj"
    /\ "tracks" \in DOMAIN export_data.o
    /\ export_data.o["tracks"].j = "list"

\* the field of a track dict as a row shows it
Shown(track, key, default) ==
    IF key \in DOMAIN track.o THEN Str(track.o[key]) ELSE default

\* C13: for data with a list of n tracks the CSV file reads back as n + 1
\* rows, the header row and then a row per track, in list order, of its
\* title, artist, album and duration; with n = 0 the header row alone; the
\* export does not fail (the operating system letting mkdir and open through).
C13_CsvHeaderAndOneRowPerTrack ==
    (TrackListExported("csv") /\ io_failure = "ok")
    => /\ export_result = Return(None)
       /\ file_path \in DOMAIN fs.files
       /\ LET tracks_ == export_data.o["tracks"].l
              rows == CsvRead(fs.files[file_path], <<>>, <<>>, <<>>, FALSE)
          IN  /\ Len(rows) = Len(tracks_) + 1
              /\ rows[1] = <<<<"Track Title">>, <<"Artist">>, <<"Album">>, <<"Duration (ms)">>>>
              /\ \A i \in 1..Len(tracks_) :
                    rows[i + 1] = <<Shown(tracks_[i], "title", <<"Unknown">>),
                                    Shown(tracks_[i], "artist", <<"Unknown">>),
                                    Shown(tracks_[i], "album", <<"Unknown">>),
                                    Shown(tracks_[i], "duration", <<"0">>)>>

\* two tracks were written, the first with a comma in its title
C13_Witness ==
    /\ TrackListExported("csv")
    /\ export_result = Return(None)
    /\ Len(export_data.o["tracks"].l) = 2
    /\ export_data.o["tracks"].l[1].o["title"] = S(<<"a", ",", "b">>)

\* s with each of its characters in `reserved` replaced by its reference
Escaped(s, reserved) ==
    Flatten([i \in 1..Len(s) |-> IF s[i] \in reserved THEN Entity(s[i]) ELSE <<s[i]>>])

Reserved == {"&", "<", ">", "\""}

\* the dict holds a str under key
HasStr(d, key) == key \in DOMAIN d.o /\ d.o[key].j = "str"

\* the child element `tag` of an element
Child(node, tag) ==
    node.children[CHOOSE i \in 1..Len(node.children) : node.children[i].tag = tag]

TextKeys == {"title", "artist", "album"}

\* the XML exporter returned: the document it wrote, parsed
XmlWritten == TrackListExported("xml") /\ export_result = Return(None)

\* the parsed document `doc` has the shape of the data: a <playlist> with a
\* <tracks> of one <track> per track
SameShape(doc) ==
    /\ doc.ok
    /\ doc.root.tag = "playlist"
    /\ Len(doc.root.children) = 1
    /\ doc.root.children[1].tag = "tracks"
    /\ Len(doc.root.children[1].children) = Len(export_data.o["tracks"].l)

\* the parsed document holds the name and the description of the data as
\* attributes, written with the characters of `reserved` replaced
AttributesReadBack(doc, reserved) ==
    \A key \in {"name", "description"} :
        HasStr(export_data, key)
        => /\ doc.root.attrs[key].raw = Escaped(export_data.o[key].s, reserved)
           /\ doc.root.attrs[key].value = export_data.o[key]

\* C14 as stated: a str used as name, description, title, artist or album is
\* written with &, <, > and " replaced by references, and the parsed
\* document holds the str in that place.
C14_EscapedAndReadBack ==
    XmlWritten
    => LET doc == XmlParse(fs.files[file_path]) IN
       /\ SameShape(doc)
       /\ AttributesReadBack(doc, Reserved)
       /\ \A i \in 1..Len(export_data.o["tracks"].l), key \in TextKeys :
             LET track == export_data.o["tracks"].l[i]
                 element == Child(doc.root.children[1].children[i], key)
             IN  HasStr(track, key)
                 => /\ element.raw = Escaped(track.o[key].s, Reserved)
                    /\ element.text = track.o[key]

\* C14 amended: a name or description is written as an attribute value with
\* &, <, > and " replaced by references; a title, artist or album is written
\* as element text with &, < and > replaced by references and " as it is; the
\* parsed document holds the str in that place, except that an empty title,
\* artist or album is read back as no text (None).
C14_EscapedWhereNeededAndReadBack ==
    XmlWritten
    => LET doc == XmlParse(fs.files[file_path]) IN
       /\ SameShape(doc)
       /\ AttributesReadBack(doc, Reserved)
       /\ \A i \in 1..Len(export_data.o["tracks"].l), key \in TextKeys :
             LET track == export_data.o["tracks"].l[i]
                 element == Child(doc.root.children[1].children[i], key)
             IN  HasStr(track, key)
                 => /\ element.raw = Escaped(track.o[key].s, {"&", "<", ">"})
                    /\ element.text = IF track.o[key].s = <<>> THEN None ELSE track.o[key]

\* a document was written whose name holds & and whose first title holds < and >
C14_Witness ==
    /\ XmlWritten
    /\ export_data.o["tracks"].l # <<>>
    /\ export_data.o["tracks"].l[1].o["title"] = S(<<"<", "b", ">">>)
    /\ HasStr(export_data, "name")
    /\ export_data.o["name"] = S(<<"R", "&", "B">>)

\* C15: an export that fails with ValueError leaves the file system as it
\* was: no directory made, no file made, the file at file_path as before.
C15_ValidationFailureLeavesFiles ==
    (export_result.kind = "raise" /\ export_result.exc = "ValueError")
    => /\ fs = fs_before
       /\ fs.dirs = fs_before.dirs
       /\ DOMAIN fs.files = DOMAIN fs_before.files
       /\ file_path \in DOMAIN fs_before.files
             => fs.files[file_path] = fs_before.files[file_path]

\* the CSV exporter rejected data without 'tracks', the parent directory of
\* file_path not existing
C15_Witness ==
    /\ exporter = "csv"
    /\ NoTracksExported
    /\ export_result.kind = "raise"
    /\ Parent(file_path) \notin fs_before.dirs
    /\ Parent(file_path) \notin fs.dirs

\* main is over
MainOver == mpc \in {"returned", "raised"}

\* authenticate() returned, get_playlist() returned the playlist and the
\* exporter returned
RunSucceeded ==
    /\ args.kind = "args"
    /\ op = "get_playlist"
    /\ pc = "idle"
    /\ result.kind = "return"
    /\ export_result.kind = "return"

\* C16, as stated: every run of main ends by returning exit code 0 or 1, 0
\* exactly when authentication, the fetch and the export all succeeded and 1
\* for every error at any step, the reading of the command line included;
\* no exception leaves main and no other exit code occurs.
C16_ExitCodeZeroOrOne ==
    MainOver =>
        /\ mpc = "returned"
        /\ exit_code \in {0, 1}
        /\ exit_code = 0 <=> RunSucceeded

\* C16, amended: once parse_arguments has accepted the command line, main
\* returns exit code 0 or 1, 0 exactly when authentication, the fetch and the
\* export all succeeded and 1 for every error of a later step.  A command
\* line argparse rejects, and --help, leave main with the SystemExit of
\* argparse (code 2, and 0 for --help) before any step was taken.
C16_ExitCodeAfterParsing ==
    /\ mpc = "returned" =>
         /\ args.kind = "args"
         /\ exit_code \in {0, 1}
         /\ exit_code = 0 <=> RunSucceeded
         /\ exit_code = 1 <=>
              \/ ended_in = "SpotifyClient"
              \/ ended_in \in {"authenticate", "get_playlist"} /\ result.kind = "raise"
              \/ ended_in = "mkdir"
              \/ ended_in = "export" /\ export_result.kind = "raise"
    /\ mpc = "raised" =>
         /\ args.kind = "exit"
         /\ ended_in = "parse_arguments"
         /\ exit_code = args.code
         /\ exit_code \in {0, 2}
         /\ op = "none"
         /\ export_result = Pending
         /\ fs \in MainFileSystems

\* a run that authenticated, fetched and exported, and returned 0
C16_Witness ==
    /\ mpc = "returned"
    /\ exit_code = 0
    /\ RunSucceeded
    /\ file_path \in DOMAIN fs.files

\* C17: get_tracks ends exactly when the service ends the chain, at the first
\* page answered 200 with a null or absent `next` or at the first page not
\* answered 200 or lost in transport; while the pages are answered 200 with
\* a `next` it goes on to that `next`, whatever the number of pages fetched
\* and also when that URL was requested before.
C17_EndsExactlyWhenChainEnds ==
    op = "get_tracks" /\ Pages # <<>> =>
        /\ pc = "idle" <=> (LastPage.status # 200 \/ LastPage.next = None)
        /\ pc = "page" => url = LastPage.next
        /\ \A i \in 1..(Len(Pages) - 1) : Pages[i].status = 200 /\ Pages[i].next # None

\* a str that is not empty
NonEmptyStr(v) == v.j = "str" /\ v.s # <<>>

\* C18: every Track of a list returned by get_tracks satisfies the Track
\* invariant, whatever the wire items were: its title, artist and album are
\* non-empty strings and its duration is a non-negative integer.
C18_ReturnedTracksSatisfyInvariant ==
    op = "get_tracks" /\ result.kind = "return" =>
        \A i \in 1..Len(result.value) :
            LET track == result.value[i] IN
            /\ NonEmptyStr(track.title)
            /\ NonEmptyStr(track.artist)
            /\ NonEmptyStr(track.album)
            /\ track.duration.j = "int"
            /\ track.duration.n >= 0

\* C19: authenticate() has two outcomes, whatever the token endpoint answers:
\* it returns True, the answer being 200 and the access token that of the
\* answer, or it fails with SpotifyAuthenticationError, the stored access
\* token being the one held before the call; no other error leaves it.
C19_AuthenticateTwoOutcomes ==
    op = "authenticate" /\ pc = "idle" /\ reqs # <<>> =>
        \/ /\ result = Return(True)
           /\ reqs[1].status = 200
           /\ \E body \in TokenBodies : access_token = Get(body, "access_token", Absent)
        \/ /\ result.kind = "raise"
           /\ result.exc = "SpotifyAuthenticationError"
           /\ access_token = tokenAtCall

\* the exporter was invoked or a file is there
ExportBegun == exporter # "none" \/ export_result # Pending \/ DOMAIN fs.files # {}

\* the requests of get_playlist so far: the metadata GET, then the track
\* pages, each the `next` of the one before
MetaThenPages ==
    /\ reqs # <<>> => reqs[1].kind = "meta"
    /\ \A i \in 2..Len(reqs) :
         /\ reqs[i].kind = "page"
         /\ reqs[i - 1].status = 200
         /\ i > 2 => reqs[i].url = reqs[i - 1].next

\* every request of get_playlist was answered 200 and the last page ended
\* the chain
FetchedWhole ==
    /\ Len(reqs) >= 2
    /\ \A i \in 1..Len(reqs) : reqs[i].status = 200
    /\ reqs[Len(reqs)].next = None

\* C20: in a run of main the steps come in the order authenticate, metadata
\* GET, track-page GETs, export.  get_playlist is called only after
\* authenticate returned, and the exporter is invoked, and a file written,
\* only after the token request, the metadata GET and every track page were
\* answered 200; when authenticate or a request of the fetch fails the
\* exporter is never invoked and no file is written.
C20_ExportAfterAuthenticateAndFetch ==
    /\ [](mpc # "none" =>
            /\ op = "get_playlist" =>
                 /\ Truthy(tokenAtCall)
                 /\ posts = 1
                 /\ all200
                 /\ MetaThenPages
            /\ ExportBegun =>
                 /\ op = "get_playlist"
                 /\ pc = "idle"
                 /\ result.kind = "return"
                 /\ FetchedWhole
            /\ (~all200 \/ \E i \in 1..Len(reqs) : reqs[i].status # 200) => ~ExportBegun
            /\ MainOver /\ ended_in \in {"authenticate", "get_playlist"} =>
                 /\ ~ExportBegun
                 /\ fs \in MainFileSystems)
    /\ [][/\ op' = "get_playlist" /\ op # "get_playlist" =>
               op = "authenticate" /\ pc = "idle" /\ result = Return(True)
          /\ exporter' # exporter => FetchedWhole /\ result.kind = "return"]_vars

\* a playlist of two pages was fetched and exported to its file
C20_Witness ==
    /\ mpc = "returned"
    /\ export_result.kind = "return"
    /\ file_path \in DOMAIN fs.files
    /\ Len(Pages) = 2
    /\ FetchedWhole

====
